---- MODULE Spec2Model ----
(***************************************************************************)
(* A model of the network diagnostics helper (src/main.py): the ping and   *)
(* traceroute output parsers, the bottleneck detector and the report       *)
(* assembly loop of check_common_sites.                                    *)
(*                                                                         *)
(* Text is modelled by TLA+ strings, one character being a string of       *)
(* length one.  A Python float is modelled by a fixed-point integer with   *)
(* FracDigits decimal places (23.456 is 23456 when FracDigits = 3), and an *)
(* Optional[float] by a sequence: <<>> is None and <<v>> is the value v.   *)
(***************************************************************************)
EXTENDS Integers, Sequences, FiniteSets, TLC

VARIABLES
    pc,          \* position of the running function
    is_windows,  \* platform.system().lower() == "windows"
    output,      \* text captured by the last _run_command
    site,        \* index into COMMON_SITES of the host being processed
    ping_ms,     \* local of check_common_sites / return value of ping_site
    hops,        \* local of check_common_sites / return value of trace_site
    bottlenecks, \* local of check_common_sites / return value of detect_bottlenecks
    results,     \* the dict built by check_common_sites, in insertion order
    threshold,   \* parameter of detect_bottlenecks
    delta,       \* parameter of detect_bottlenecks
    raised       \* the exception that left the running function, "" when none

vars == <<pc, is_windows, output, site, ping_ms, hops, bottlenecks, results,
          threshold, delta, raised>>

-----------------------------------------------------------------------------
(* Bounds of the model.                                                    *)

FracDigits == 3
MaxSites == 2
MaxHops == 3
MaxLines == 2

-----------------------------------------------------------------------------
(* Characters and Python's str -> number conversions.                      *)

RECURSIVE Pow10(_)
Pow10(n) == IF n = 0 THEN 1 ELSE 10 * Pow10(n - 1)

Scale == Pow10(FracDigits)

Ms(whole, frac) == whole * Scale + frac * Pow10(FracDigits - 3)

CharAt(s, i) == SubSeq(s, i, i)

Digits == {"0", "1", "2", "3", "4", "5", "6", "7", "8", "9"}

Spaces == {" ", "\t", "\n", "\r", "\f"}

DigitVal(c) ==
    CASE c = "0" -> 0 [] c = "1" -> 1 [] c = "2" -> 2 [] c = "3" -> 3
      [] c = "4" -> 4 [] c = "5" -> 5 [] c = "6" -> 6 [] c = "7" -> 7
      [] c = "8" -> 8 [] c = "9" -> 9

ClassHas(cls, c) ==
    CASE cls = "\\d" -> c \in Digits
      [] cls = "\\s" -> c \in Spaces
      [] cls = "[^/]" -> c # "/"
      [] cls = "[0-9.]" -> c \in Digits \cup {"."}
      [] cls = "." -> c # "\n"

RECURSIVE PyInt(_)
PyInt(s) ==
    IF Len(s) = 0 THEN 0
    ELSE 10 * PyInt(SubSeq(s, 1, Len(s) - 1)) + DigitVal(CharAt(s, Len(s)))

RECURSIVE FracVal(_, _)
FracVal(s, places) ==
    IF places = 0 \/ Len(s) = 0 THEN 0
    ELSE DigitVal(Head(s)) * Pow10(places - 1) + FracVal(Tail(s), places - 1)

DotPositions(s) == {i \in 1..Len(s) : CharAt(s, i) = "."}

\* float(s) for a text of digits and dots: ok is FALSE where Python raises
\* ValueError (no digit at all, or more than one dot).
PyFloat(s) ==
    LET dots == DotPositions(s)
    IN  IF Cardinality(dots) > 1 \/ Len(s) = Cardinality(dots)
        THEN [ok |-> FALSE, v |-> 0]
        ELSE IF dots = {}
        THEN [ok |-> TRUE, v |-> PyInt(s) * Scale]
        ELSE LET d == CHOOSE i \in dots : TRUE
             IN  [ok |-> TRUE,
                  v |-> PyInt(SubSeq(s, 1, d - 1)) * Scale
                        + FracVal(SubSeq(s, d + 1, Len(s)), FracDigits)]

RECURSIVE Lstrip(_, _)
Lstrip(s, c) ==
    IF Len(s) > 0 /\ Head(s) = c THEN Lstrip(Tail(s), c) ELSE s

-----------------------------------------------------------------------------
(* Python's re: a backtracking matcher over a pattern given as a sequence  *)
(* of nodes.  M returns the first match in the engine's priority order.    *)

Lit(c) == [t |-> "lit", cls |-> c, min |-> 0, sub |-> <<>>]
Rep(cls, min) == [t |-> "rep", cls |-> cls, min |-> min, sub |-> <<>>]
Lazy(cls, min) == [t |-> "lazy", cls |-> cls, min |-> min, sub |-> <<>>]
Opt(sub) == [t |-> "opt", cls |-> "", min |-> 0, sub |-> sub]
Open(g) == [t |-> "open", cls |-> "", min |-> g, sub |-> <<>>]
Close(g) == [t |-> "close", cls |-> "", min |-> g, sub |-> <<>>]

LitStr(s) == [i \in 1..Len(s) |-> Lit(CharAt(s, i))]

NoMatch == [ok |-> FALSE, end |-> 0, caps |-> <<>>]

NoCaps == <<<<0, 0>>, <<0, 0>>>>

\* The number of characters from pos on that the class holds.
Run(cls, s, pos) ==
    LET stop == CHOOSE e \in pos..Len(s) + 1 :
                    /\ e = Len(s) + 1 \/ ~ClassHas(cls, CharAt(s, e))
                    /\ \A m \in pos..e - 1 : ClassHas(cls, CharAt(s, m))
    IN  stop - pos

RECURSIVE M(_, _, _, _)

\* The repetition counts lo..hi, each with the match of the rest after it.
Tries(rest, s, pos, caps, lo, hi) ==
    {<<n, M(rest, s, pos + n, caps)>> : n \in lo..hi}

\* A greedy repetition gives way one character at a time: the match with the
\* largest count wins.
TryGreedy(rest, s, pos, caps, n, min) ==
    LET good == {x \in Tries(rest, s, pos, caps, min, n) : x[2].ok}
    IN  IF good = {} THEN NoMatch
        ELSE (CHOOSE x \in good : \A y \in good : y[1] <= x[1])[2]

\* A lazy repetition grows one character at a time: the match with the
\* smallest count wins.
TryLazy(rest, s, pos, caps, n, max) ==
    LET good == {x \in Tries(rest, s, pos, caps, n, max) : x[2].ok}
    IN  IF good = {} THEN NoMatch
        ELSE (CHOOSE x \in good : \A y \in good : x[1] <= y[1])[2]

M(pat, s, pos, caps) ==
    IF Len(pat) = 0 THEN [ok |-> TRUE, end |-> pos, caps |-> caps]
    ELSE LET h == Head(pat)
             rest == Tail(pat)
         IN  CASE h.t = "lit" ->
                    IF pos <= Len(s) /\ CharAt(s, pos) = h.cls
                    THEN M(rest, s, pos + 1, caps)
                    ELSE NoMatch
               [] h.t = "open" ->
                    M(rest, s, pos, [caps EXCEPT ![h.min] = <<pos, pos>>])
               [] h.t = "close" ->
                    M(rest, s, pos, [caps EXCEPT ![h.min][2] = pos])
               [] h.t = "opt" ->
                    LET a == M(h.sub \o rest, s, pos, caps)
                    IN  IF a.ok THEN a ELSE M(rest, s, pos, caps)
               [] h.t = "rep" ->
                    TryGreedy(rest, s, pos, caps, Run(h.cls, s, pos), h.min)
               [] h.t = "lazy" ->
                    TryLazy(rest, s, pos, caps, h.min, Run(h.cls, s, pos))

re_match(pat, s) == M(pat, s, 1, NoCaps)

\* The match at the first start position, from start on, that has one.
SearchFrom(pat, s, start) ==
    LET found == {i \in start..Len(s) + 1 : M(pat, s, i, NoCaps).ok}
    IN  IF found = {} THEN NoMatch
        ELSE M(pat, s, CHOOSE i \in found : \A j \in found : i <= j, NoCaps)

re_search(pat, s) == SearchFrom(pat, s, 1)

group(s, m, g) == SubSeq(s, m.caps[g][1], m.caps[g][2] - 1)

-----------------------------------------------------------------------------
(* ping_site: the parsing of the captured text.                            *)

\* r"Average = (\d+(?:\.\d+)?)ms"
WindowsPingRe ==
    LitStr("Average = ")
    \o <<Open(1), Rep("\\d", 1), Opt(<<Lit("."), Rep("\\d", 1)>>), Close(1)>>
    \o LitStr("ms")

\* r"= ([0-9.]+)/": the first slot
MutPosixPingRe_FirstSlot ==
    LitStr("= ") \o <<Open(1), Rep("[0-9.]", 1), Close(1), Lit("/")>>

\* r"= [^/]+/([0-9.]+)/"
PosixPingRe ==
    LitStr("= ")
    \o <<Rep("[^/]", 1), Lit("/"), Open(1), Rep("[0-9.]", 1), Close(1), Lit("/")>>

PingPattern(windows) == IF windows THEN WindowsPingRe ELSE PosixPingRe

MutExceptValueError_Uncaught(f) ==
    IF f.ok THEN [raised |-> "", ret |-> <<f.v>>] ELSE [raised |-> "ValueError", ret |-> <<>>]

\* The try/except around float(): ValueError is caught and None returned.
ExceptValueError(f) ==
    IF f.ok THEN [raised |-> "", ret |-> <<f.v>>] ELSE [raised |-> "", ret |-> <<>>]

\* Lines 76-86: [raised |-> the exception leaving ping_site ("" when none),
\*               ret |-> the Optional[float] returned]
ParsePing(windows, out) ==
    LET match == re_search(PingPattern(windows), out)
    IN  IF match.ok
        THEN ExceptValueError(PyFloat(group(out, match, 1)))
        ELSE [raised |-> "", ret |-> <<>>]

-----------------------------------------------------------------------------
(* trace_site: the parsing of the captured text.                           *)

LineBreaks == {"\n", "\r"}

\* The position of the first line break from j on, Len(s) + 1 when none.
LineEnd(s, j) ==
    CHOOSE e \in j..Len(s) + 1 :
        /\ e = Len(s) + 1 \/ CharAt(s, e) \in LineBreaks
        /\ \A m \in j..e - 1 : CharAt(s, m) \notin LineBreaks

\* str.splitlines(): a trailing line break opens no further line.
RECURSIVE splitlines(_)
splitlines(s) ==
    IF Len(s) = 0 THEN <<>>
    ELSE LET eol == LineEnd(s, 1)
             next == IF eol < Len(s) /\ CharAt(s, eol) = "\r" /\ CharAt(s, eol + 1) = "\n"
                     THEN eol + 2
                     ELSE eol + 1
         IN  <<SubSeq(s, 1, eol - 1)>> \o splitlines(SubSeq(s, next, Len(s)))

\* r"\s*(\d+)\s+.*((?:<)?\d+(?:\.\d+)?)\s*ms": a greedy .*
MutTraceRe_Greedy ==
    <<Rep("\\s", 0), Open(1), Rep("\\d", 1), Close(1), Rep("\\s", 1), Rep(".", 0),
      Open(2), Opt(<<Lit("<")>>), Rep("\\d", 1), Opt(<<Lit("."), Rep("\\d", 1)>>),
      Close(2), Rep("\\s", 0)>>
    \o LitStr("ms")

\* r"\s*(\d+)\s+.*?((?:<)?\d+(?:\.\d+)?)\s*ms"
TraceRe ==
    <<Rep("\\s", 0), Open(1), Rep("\\d", 1), Close(1), Rep("\\s", 1), Lazy(".", 0),
      Open(2), Opt(<<Lit("<")>>), Rep("\\d", 1), Opt(<<Lit("."), Rep("\\d", 1)>>),
      Close(2), Rep("\\s", 0)>>
    \o LitStr("ms")

MutParseLine_ZeroBased(line) ==
    LET match == re_match(TraceRe, line)
    IN  IF match.ok
        THEN LET hop == PyInt(group(line, match, 1)) - 1
                 latency == PyFloat(Lstrip(group(line, match, 2), "<"))
             IN  IF latency.ok
                 THEN [raised |-> "", ret |-> <<<<hop, latency.v>>>>]
                 ELSE [raised |-> "ValueError", ret |-> <<>>]
        ELSE [raised |-> "", ret |-> <<>>]

\* The body of the loop over the lines: the hops one line appends; float()
\* stands outside any try here, so its ValueError would leave trace_site.
ParseLine(line) ==
    LET match == re_match(TraceRe, line)
    IN  IF match.ok
        THEN LET hop == PyInt(group(line, match, 1))
                 latency == PyFloat(Lstrip(group(line, match, 2), "<"))
             IN  IF latency.ok
                 THEN [raised |-> "", ret |-> <<<<hop, latency.v>>>>]
                 ELSE [raised |-> "ValueError", ret |-> <<>>]
        ELSE [raised |-> "", ret |-> <<>>]

RECURSIVE ParseLines(_)
ParseLines(lines) ==
    IF Len(lines) = 0 THEN [raised |-> "", ret |-> <<>>]
    ELSE LET first == ParseLine(Head(lines))
         IN  IF first.raised # "" THEN first
             ELSE LET others == ParseLines(Tail(lines))
                  IN  IF others.raised # "" THEN others
                      ELSE [raised |-> "", ret |-> first.ret \o others.ret]

\* Lines 100-108
ParseTrace(out) == ParseLines(splitlines(out))

-----------------------------------------------------------------------------
(* detect_bottlenecks.                                                     *)

MutHighLatency_AtLeast(latency, thr) == latency >= thr

HighLatency(latency, thr) == latency > thr

MutSuddenIncrease_AtLeast(latency, previous, dlt) ==
    previous # <<>> /\ latency - previous[1] >= dlt

\* previous is <<>> for None
SuddenIncrease(latency, previous, dlt) ==
    previous # <<>> /\ latency - previous[1] > dlt

MutHopEntries_NextHop(h, previous, thr, dlt) ==
    (IF HighLatency(h[2], thr) THEN <<<<h[1] + 1, h[2], "high latency">>>> ELSE <<>>)
    \o (IF SuddenIncrease(h[2], previous, dlt)
        THEN <<<<h[1] + 1, h[2], "sudden increase">>>>
        ELSE <<>>)

MutHopEntries_SuddenFirst(h, previous, thr, dlt) ==
    (IF SuddenIncrease(h[2], previous, dlt)
     THEN <<<<h[1], h[2], "sudden increase">>>>
     ELSE <<>>)
    \o (IF HighLatency(h[2], thr) THEN <<<<h[1], h[2], "high latency">>>> ELSE <<>>)

\* The entries one iteration of the loop appends.
HopEntries(h, previous, thr, dlt) ==
    (IF HighLatency(h[2], thr) THEN <<<<h[1], h[2], "high latency">>>> ELSE <<>>)
    \o (IF SuddenIncrease(h[2], previous, dlt)
        THEN <<<<h[1], h[2], "sudden increase">>>>
        ELSE <<>>)

NextPrevious(h, previous) == <<h[2]>>

RECURSIVE DetectLoop(_, _, _, _)
DetectLoop(hs, previous, thr, dlt) ==
    IF Len(hs) = 0 THEN <<>>
    ELSE HopEntries(Head(hs), previous, thr, dlt)
         \o DetectLoop(Tail(hs), NextPrevious(Head(hs), previous), thr, dlt)

detect_bottlenecks(hs, thr, dlt) == DetectLoop(hs, <<>>, thr, dlt)

-----------------------------------------------------------------------------
(* _run_command and the functions that call it.                            *)

\* subprocess.run either fails to start the tool (FileNotFoundError, which
\* nothing catches) or completes; with check=False its exit status is not
\* looked at and the merged stdout/stderr text comes back.
RunCommandOutcomes(texts) ==
    {[raised |-> "FileNotFoundError", stdout |-> ""]}
    \cup {[raised |-> "", stdout |-> t] : t \in texts}

ping_site(windows, run) ==
    IF run.raised # "" THEN [raised |-> run.raised, ret |-> <<>>]
    ELSE ParsePing(windows, run.stdout)

trace_site(run) ==
    IF run.raised # "" THEN [raised |-> run.raised, ret |-> <<>>]
    ELSE ParseTrace(run.stdout)

-----------------------------------------------------------------------------
(* Configuration.                                                          *)

COMMON_SITES ==
    <<"google.com", "facebook.com", "amazon.com", "apple.com", "netflix.com",
      "microsoft.com", "github.com", "reddit.com", "cloudflare.com", "yahoo.com",
      "bing.com", "duckduckgo.com", "baidu.com", "linkedin.com", "instagram.com",
      "twitter.com", "wikipedia.org", "tiktok.com", "snapchat.com", "whatsapp.com">>

\* The hosts the model runs: the first MaxSites of the list.
Sites == SubSeq(COMMON_SITES, 1, MaxSites)

DefaultThreshold == Ms(100, 0)

DefaultDelta == Ms(50, 0)

MutDictSet_Front(d, key, value) == <<<<key, value>>>> \o d

\* results[key] = value on a dict kept in insertion order: an existing key
\* keeps its place and takes the new value, a new key goes last.
DictSet(d, key, value) ==
    IF \E i \in 1..Len(d) : d[i][1] = key
    THEN [i \in 1..Len(d) |-> IF d[i][1] = key THEN <<key, value>> ELSE d[i]]
    ELSE Append(d, <<key, value>>)

Keys(d) == [i \in 1..Len(d) |-> d[i][1]]

-----------------------------------------------------------------------------
(* Inputs.                                                                 *)

SeqsUpTo(S, n) == UNION {[1..k -> S] : k \in 0..n}

RECURSIVE Join(_)
Join(lines) ==
    IF Len(lines) = 0 THEN ""
    ELSE IF Len(lines) = 1 THEN lines[1]
    ELSE lines[1] \o "\n" \o Join(Tail(lines))

HopNumbers == {1, 2}

Latencies == {Ms(10, 0), Ms(70, 0), Ms(100, 0), Ms(150, 0), Ms(170, 0)}

Thresholds == {Ms(100, 0), Ms(60, 0)}

Deltas == {Ms(50, 0), 0, 0 - Ms(200, 0)}

HopSeqs == SeqsUpTo(HopNumbers \X Latencies, MaxHops)

\* What the ping tool prints for a host inside check_common_sites: nothing,
\* a failure, a success.
SitePingTexts(windows) ==
    IF windows
    THEN {"", "Request timed out.",
          "    Minimum = 16ms, Maximum = 18ms, Average = 17ms"}
    ELSE {"", "ping: unknown host",
          "rtt min/avg/max/mdev = 10.0/23.456/40.0/5.0 ms"}

SiteTraceTexts ==
    {"", " 1  * * *", " 1  gw  10.0 ms\n 2  isp  170.0 ms"}

-----------------------------------------------------------------------------
(* check_common_sites, one step per call it makes, and a direct call of    *)
(* detect_bottlenecks.                                                     *)

Init ==
    /\ pc = "idle"
    /\ is_windows = FALSE
    /\ output = ""
    /\ site = 0
    /\ ping_ms = <<>>
    /\ hops = <<>>
    /\ bottlenecks = <<>>
    /\ results = <<>>
    /\ threshold = DefaultThreshold
    /\ delta = DefaultDelta
    /\ raised = ""

\* detect_bottlenecks(H, thr, dlt) called on its own.
CallDetect ==
    /\ pc = "idle"
    /\ \E H \in HopSeqs, thr \in Thresholds, dlt \in Deltas :
          /\ hops' = H
          /\ threshold' = thr
          /\ delta' = dlt
          /\ bottlenecks' = detect_bottlenecks(H, thr, dlt)
    /\ pc' = "detect_returned"
    /\ UNCHANGED <<is_windows, output, site, ping_ms, results, raised>>

\* Lines 146-147: results = {} and the loop is entered.
CallCheck ==
    /\ pc = "idle"
    /\ is_windows' \in BOOLEAN
    /\ results' = <<>>
    /\ site' = 1
    /\ pc' = IF Len(Sites) = 0 THEN "returned" ELSE "ping"
    /\ UNCHANGED <<output, ping_ms, hops, bottlenecks, threshold, delta, raised>>

\* Line 148: ping_ms = ping_site(site)
PingStep ==
    /\ pc = "ping"
    /\ \E run \in RunCommandOutcomes(SitePingTexts(is_windows)) :
          LET r == ping_site(is_windows, run)
          IN  /\ output' = run.stdout
              /\ raised' = r.raised
              /\ IF r.raised # ""
                 THEN pc' = "raised" /\ UNCHANGED ping_ms
                 ELSE pc' = "trace" /\ ping_ms' = r.ret
    /\ UNCHANGED <<is_windows, site, hops, bottlenecks, results, threshold, delta>>

\* Line 149: hops = trace_site(site)
TraceStep ==
    /\ pc = "trace"
    /\ \E run \in RunCommandOutcomes(SiteTraceTexts) :
          LET r == trace_site(run)
          IN  /\ output' = run.stdout
              /\ raised' = r.raised
              /\ IF r.raised # ""
                 THEN pc' = "raised" /\ UNCHANGED hops
                 ELSE pc' = "detect" /\ hops' = r.ret
    /\ UNCHANGED <<is_windows, site, ping_ms, bottlenecks, results, threshold, delta>>

\* Line 150: bottlenecks = detect_bottlenecks(hops)
DetectStep ==
    /\ pc = "detect"
    /\ threshold' = DefaultThreshold
    /\ delta' = DefaultDelta
    /\ bottlenecks' = detect_bottlenecks(hops, DefaultThreshold, DefaultDelta)
    /\ pc' = "store"
    /\ UNCHANGED <<is_windows, output, site, ping_ms, hops, results, raised>>

SiteReport == [ping_ms |-> ping_ms, hops |-> hops, bottlenecks |-> bottlenecks]

\* Lines 151-156: results[site] = {...}; the next host, or return results.
StoreStep ==
    /\ pc = "store"
    /\ results' = DictSet(results, Sites[site], SiteReport)
    /\ site' = site + 1
    /\ pc' = IF site = Len(Sites) THEN "returned" ELSE "ping"
    /\ UNCHANGED <<is_windows, output, ping_ms, hops, bottlenecks, threshold, delta,
                   raised>>

Next == CallDetect \/ CallCheck \/ PingStep \/ TraceStep \/ DetectStep \/ StoreStep

Spec == Init /\ [][Next]_vars

-----------------------------------------------------------------------------
(* The parsers on captured text: ping_site and trace_site after their      *)
(* _run_command has returned.                                              *)

\* Lines a POSIX ping prints.
PosixReplyLines ==
    {"PING h (1.1.1.1) 56(84) bytes of data.",
     "64 bytes from 1.1.1.1: icmp_seq=1 ttl=57 time=12.3 ms",
     "1 packets transmitted, 1 received, 0% packet loss, time 0ms",
     "ping: unknown host h",
     ""}

\* Summary lines, each with the value of its average slot.
PosixSummaries ==
    {<<"rtt min/avg/max/mdev = 10.0/23.456/40.0/5.0 ms", Ms(23, 456)>>,
     <<"round-trip min/avg/max/stddev = 7/8.5/9/0.1 ms", Ms(8, 500)>>,
     <<"rtt min/avg/max/mdev = 0.031/0.042/0.05/0.007 ms, pipe 2", Ms(0, 42)>>}

PosixSummaryLines == {x[1] : x \in PosixSummaries}

\* Text no ping prints: a summary whose average slot is no number, a summary
\* with a single slot, statistics with no space after the "=", an "= " with
\* the slashes on the next line.
PosixOddLines ==
    {"rtt min/avg/max/mdev = 1.0/1.2.3/4.0/0.0 ms",
     "rtt min/avg/max/mdev = 1.0/./4.0/0.0 ms",
     "rtt avg = 5.5 ms",
     "rtt min/avg/max=1/2/3",
     "size = 64",
     "a/7/b"}

\* Lines a Windows ping prints, and odd ones.
WindowsLines ==
    {"Reply from 1.1.1.1: bytes=32 time=17ms TTL=57",
     "    Minimum = 16ms, Maximum = 18ms, Average = 17ms",
     "    Minimum = 1ms, Maximum = 2ms, Average = 1.5ms",
     "Request timed out.",
     "Average = 17.ms",
     "Average = ms",
     "Average =  9ms"}

PingLines == PosixReplyLines \cup PosixSummaryLines \cup PosixOddLines \cup WindowsLines

PingTexts == {Join(ls) : ls \in SeqsUpTo(PingLines, MaxLines)}

\* Lines 74-86 of ping_site on one captured text.
ParsePingOutput ==
    /\ pc = "idle"
    /\ \E windows \in BOOLEAN, t \in PingTexts :
          LET r == ParsePing(windows, t)
          IN  /\ is_windows' = windows
              /\ output' = t
              /\ raised' = r.raised
              /\ ping_ms' = r.ret
              /\ pc' = IF r.raised # "" THEN "raised" ELSE "ping_returned"
    /\ UNCHANGED <<site, hops, bottlenecks, results, threshold, delta>>

NextPing == ParsePingOutput

SpecPing == Init /\ [][NextPing]_vars

\* Lines traceroute and tracert print, and odd ones.
TraceLines ==
    {"traceroute to h (1.1.1.1), 20 hops max",
     "",
     "  3  10.0.0.1  12.345 ms",
     " 1  gw (10.0.0.1)  0.5 ms  170.7 ms",
     "  5  * * *",
     "  2    <1 ms    <1 ms  10.0.0.9",
     "  4  *  12 ms  13 ms",
     "10\t-150.25ms",
     "0 1 ms",
     "007  5.ms 1.2.3 ms",
     "12 ms",
     " 6  h5ms.net 9 ms"}

LineSeparators == {"\n", "\r\n"}

RECURSIVE JoinWith(_, _)
JoinWith(lines, sep) ==
    IF Len(lines) = 0 THEN ""
    ELSE IF Len(lines) = 1 THEN lines[1]
    ELSE lines[1] \o sep \o JoinWith(Tail(lines), sep)

TraceTexts ==
    {JoinWith(ls, sep) : ls \in SeqsUpTo(TraceLines, MaxLines), sep \in LineSeparators}

\* Lines 98-108 of trace_site on one captured text.
ParseTraceOutput ==
    /\ pc = "idle"
    /\ \E t \in TraceTexts :
          LET r == ParseTrace(t)
          IN  /\ output' = t
              /\ raised' = r.raised
              /\ hops' = r.ret
              /\ pc' = IF r.raised # "" THEN "raised" ELSE "trace_returned"
    /\ UNCHANGED <<is_windows, site, ping_ms, bottlenecks, results, threshold, delta>>

NextTrace == ParseTraceOutput

SpecTrace == Init /\ [][NextTrace]_vars

-----------------------------------------------------------------------------
(* Properties of detect_bottlenecks and of check_common_sites (Spec).      *)

Idx(n) == [i \in 1..n |-> i]

HopOf(e) == <<e[1], e[2]>>

Sound(bs, hs) == \A j \in 1..Len(bs) : \E i \in 1..Len(hs) : hs[i] = HopOf(bs[j])

DetectDone == pc \in {"detect_returned", "store"}

\* C1: every entry detect_bottlenecks returns carries a (hop, latency) pair of
\* its input, for every input, threshold and delta; so in every SiteReport of
\* check_common_sites each bottleneck is one of that report's hops.
C1_Soundness ==
    /\ DetectDone => Sound(bottlenecks, hops)
    /\ \A k \in 1..Len(results) : Sound(results[k][2].bottlenecks, results[k][2].hops)

C1_Witness ==
    /\ pc = "detect_returned"
    /\ threshold # DefaultThreshold
    /\ Len(bottlenecks) >= 2
    /\ \E i \in 1..Len(hops) : \A j \in 1..Len(bottlenecks) : hops[i] # HopOf(bottlenecks[j])

\* C2: a failed probe (tool missing, non-zero exit, no output) never leaves
\* check_common_sites as an exception.
C2_ProbeFailureIsData == pc # "raised"

WithReason(bs, reason) ==
    LET Has(e) == e[3] = reason IN SelectSeq(bs, Has)

\* The hops at the given positions, each tagged with the reason.
Tagged(hs, positions, reason) ==
    [k \in 1..Len(positions) |-> <<hs[positions[k]][1], hs[positions[k]][2], reason>>]

JumpPositions(hs, dlt) ==
    LET Jumps(i) == i > 1 /\ hs[i][2] - hs[i - 1][2] > dlt
    IN  SelectSeq(Idx(Len(hs)), Jumps)

\* C3: the "sudden increase" entries are exactly the hops at the positions i > 1
\* whose latency exceeds that of the element just before by strictly more than
\* delta, in input order; the first hop never has one, whatever delta is.
C3_SuddenIncrease ==
    DetectDone =>
        WithReason(bottlenecks, "sudden increase")
            = Tagged(hops, JumpPositions(hops, delta), "sudden increase")

C3_Witness ==
    /\ pc = "detect_returned"
    /\ delta < 0
    /\ Len(hops) = MaxHops
    /\ hops[2][2] < hops[1][2]
    /\ Len(WithReason(bottlenecks, "sudden increase")) = Len(hops) - 1

HighPositions(hs, thr) ==
    LET High(i) == hs[i][2] > thr
    IN  SelectSeq(Idx(Len(hs)), High)

\* C4: the "high latency" entries are exactly the hops whose latency is strictly
\* greater than threshold, in input order, whatever the previous latency is.
C4_HighLatency ==
    DetectDone =>
        WithReason(bottlenecks, "high latency")
            = Tagged(hops, HighPositions(hops, threshold), "high latency")

C4_Witness ==
    /\ pc = "detect_returned"
    /\ Len(hops) >= 2
    /\ hops[1][2] = threshold
    /\ hops[2][2] > threshold
    /\ WithReason(bottlenecks, "high latency") = <<<<hops[2][1], hops[2][2], "high latency">>>>
    /\ Len(bottlenecks) = 1

AllowedBlocks(h) ==
    {<<>>,
     <<<<h[1], h[2], "high latency">>>>,
     <<<<h[1], h[2], "sudden increase">>>>,
     <<<<h[1], h[2], "high latency">>, <<h[1], h[2], "sudden increase">>>>}

\* out is one allowed block per element of hs, in the order of hs.
RECURSIVE InBlocks(_, _)
InBlocks(out, hs) ==
    IF Len(hs) = 0 THEN Len(out) = 0
    ELSE \E b \in AllowedBlocks(Head(hs)) :
            /\ Len(b) <= Len(out)
            /\ SubSeq(out, 1, Len(b)) = b
            /\ InBlocks(SubSeq(out, Len(b) + 1, Len(out)), Tail(hs))

\* C5: the output is the concatenation, in input order, of one block per input
\* position, a block being empty, one entry, or "high latency" immediately
\* followed by "sudden increase"; the empty input gives the empty output.
C5_EmissionOrder == DetectDone => InBlocks(bottlenecks, hops)

C5_Witness ==
    /\ pc = "detect_returned"
    /\ Len(hops) = 3
    /\ Len(bottlenecks) = 3
    /\ HopOf(bottlenecks[1]) = hops[1]
    /\ bottlenecks[2] = <<hops[3][1], hops[3][2], "high latency">>
    /\ bottlenecks[3] = <<hops[3][1], hops[3][2], "sudden increase">>

StepOrder ==
    /\ pc = "ping" => pc' \in {"trace", "raised"} /\ site' = site /\ results' = results
    /\ pc = "trace" => pc' \in {"detect", "raised"} /\ site' = site /\ results' = results
    /\ pc = "detect" => pc' = "store" /\ site' = site /\ results' = results
    /\ pc = "store" =>
          /\ Keys(results') = SubSeq(COMMON_SITES, 1, site)
          /\ site' = site + 1
          /\ pc' = IF site = Len(Sites) THEN "returned" ELSE "ping"
    /\ pc' = "returned" => Keys(results') = Sites

\* C6: each host is pinged, then traced, then examined, then stored, before the
\* next host is touched; after host k is stored the keys of the report are the
\* first k configured hosts in order, and at the return they are the whole
\* configured list, once each, whatever the probes returned.
C6_ReportOrder == [][StepOrder]_vars

C6_Witness ==
    /\ pc = "returned"
    /\ Len(results) = Len(Sites)
    /\ results[1][2].ping_ms = <<>>
    /\ results[1][2].hops = <<>>
    /\ results[Len(Sites)][2].bottlenecks # <<>>

-----------------------------------------------------------------------------
(* Properties of the ping parser (SpecPing).                               *)

\* The first position >= from that holds c, Len(s) + 1 when there is none.
Find(s, c, from) ==
    IF from > Len(s) THEN Len(s) + 1
    ELSE CHOOSE e \in from..Len(s) + 1 :
            /\ e = Len(s) + 1 \/ CharAt(s, e) = c
            /\ \A m \in from..e - 1 : CharAt(s, m) # c

\* s[from..to], cut at the end of s.
Slice(s, from, to) == SubSeq(s, from, IF to > Len(s) THEN Len(s) ELSE to)

AllIn(s, from, to, chars) == \A m \in from..to : CharAt(s, m) \in chars

\* "= " stands at i, the first "/" after it stands at least one character
\* further, and between that "/" and the next one there are only digits and
\* dots, at least one.
PosixStatsAt(s, i) ==
    /\ Slice(s, i, i + 1) = "= "
    /\ LET j == Find(s, "/", i + 2)
           k == Find(s, "/", j + 1)
       IN  /\ j >= i + 3
           /\ k <= Len(s)
           /\ k >= j + 2
           /\ AllIn(s, j + 1, k - 1, Digits \cup {"."})

\* The text between the first two "/" after position i.
SecondSlot(s, i) ==
    LET j == Find(s, "/", i + 2)
        k == Find(s, "/", j + 1)
    IN  SubSeq(s, j + 1, k - 1)

PosixStats(s) == {i \in 1..Len(s) : PosixStatsAt(s, i)}

Least(S) == CHOOSE x \in S : \A y \in S : x <= y

\* "Average = " stands at i, followed by digits, or digits "." digits, and "ms".
WindowsAverageAt(s, i) ==
    /\ Slice(s, i, i + 9) = "Average = "
    /\ \E e \in i + 10..Len(s) :
          /\ AllIn(s, i + 10, e, Digits \cup {"."})
          /\ CharAt(s, i + 10) \in Digits
          /\ CharAt(s, e) \in Digits
          /\ Cardinality({m \in i + 10..e : CharAt(s, m) = "."}) <= 1
          /\ Slice(s, e + 1, e + 2) = "ms"

WindowsAverages(s) == {i \in 1..Len(s) : WindowsAverageAt(s, i)}

PatternFound(windows, s) ==
    IF windows THEN WindowsAverages(s) # {} ELSE PosixStats(s) # {}

IsNumberText(t) ==
    /\ \E m \in 1..Len(t) : CharAt(t, m) \in Digits
    /\ Cardinality({m \in 1..Len(t) : CharAt(t, m) = "."}) <= 1

\* C7: on every captured text and on both platforms the ping parser raises
\* nothing; it returns None when the platform's pattern is not in the text, and
\* when the POSIX average slot it matched is not a number.
C7_PingNeverRaises ==
    /\ pc # "raised"
    /\ pc = "ping_returned" =>
          /\ raised = ""
          /\ ~PatternFound(is_windows, output) => ping_ms = <<>>
          /\ (/\ ~is_windows
              /\ PosixStats(output) # {}
              /\ ~IsNumberText(SecondSlot(output, Least(PosixStats(output)))))
             => ping_ms = <<>>

C7_Witness ==
    /\ pc = "ping_returned"
    /\ ~is_windows
    /\ PosixStats(output) # {}
    /\ SecondSlot(output, Least(PosixStats(output))) = "1.2.3"
    /\ ping_ms = <<>>

TextLines(s) == splitlines(s)

\* The text holds exactly one summary line, and no "/" on any other line (as
\* in what a POSIX ping prints: header, replies, packet counts, errors).
IsPosixPingOutput(s) ==
    LET ls == TextLines(s)
    IN  /\ Cardinality({n \in 1..Len(ls) : ls[n] \in PosixSummaryLines}) = 1
        /\ \A n \in 1..Len(ls) :
              ls[n] \notin PosixSummaryLines => Find(ls[n], "/", 1) > Len(ls[n])

SummaryAverage(s) ==
    LET ls == TextLines(s)
        n == CHOOSE n \in 1..Len(ls) : ls[n] \in PosixSummaryLines
        x == CHOOSE x \in PosixSummaries : x[1] = ls[n]
    IN  x[2]

\* C8: on POSIX ping output with a summary line "... = min/avg/max/dev ..." the
\* parser returns the value of the second slot after the "=", the average, and
\* no other number of the summary line or of another line, whatever the other
\* lines hold besides "/".
C8_PosixAverage ==
    (pc = "ping_returned" /\ ~is_windows /\ IsPosixPingOutput(output))
        => ping_ms = <<SummaryAverage(output)>>

C8_Witness ==
    /\ pc = "ping_returned"
    /\ ~is_windows
    /\ IsPosixPingOutput(output)
    /\ TextLines(output)[1] = "64 bytes from 1.1.1.1: icmp_seq=1 ttl=57 time=12.3 ms"
    /\ ping_ms = <<Ms(23, 456)>>

-----------------------------------------------------------------------------
(* Properties of the traceroute parser (SpecTrace).                        *)

FirstNonSpace(line) == Least({m \in 1..Len(line) + 1 :
                                m = Len(line) + 1 \/ CharAt(line, m) \notin Spaces})

\* The end of the leading hop number: digits from the first non-blank
\* character up to e, and a blank right after; 0 when the line has none.
HopEnd(line) ==
    LET a == FirstNonSpace(line)
        ends == {e \in a..Len(line) - 1 :
                    AllIn(line, a, e, Digits) /\ CharAt(line, e + 1) \in Spaces}
    IN  IF ends = {} THEN 0 ELSE Least(ends)

IsLatencyText(t) ==
    LET u == IF Len(t) > 0 /\ Head(t) = "<" THEN Tail(t) ELSE t
    IN  /\ Len(u) > 0
        /\ AllIn(u, 1, Len(u), Digits \cup {"."})
        /\ Head(u) \in Digits
        /\ CharAt(u, Len(u)) \in Digits
        /\ Cardinality({m \in 1..Len(u) : CharAt(u, m) = "."}) <= 1

\* line[p..q] is a latency value and "ms" follows it, blanks allowed between.
LatencyAt(line, p, q) ==
    /\ IsLatencyText(SubSeq(line, p, q))
    /\ \E r \in q + 1..Len(line) - 1 :
          AllIn(line, q + 1, r - 1, Spaces) /\ SubSeq(line, r, r + 1) = "ms"

LatencyStarts(line) ==
    {p \in HopEnd(line) + 2..Len(line) :
        /\ CharAt(line, p) \in Digits \cup {"<"}
        /\ \E q \in p..Len(line) : LatencyAt(line, p, q)}

Qualifies(line) == HopEnd(line) > 0 /\ LatencyStarts(line) # {}

\* The reading of a qualifying line: its leading number, and the first value
\* on it that "ms" follows, without its "<".
Reading(line) ==
    LET a == FirstNonSpace(line)
        p == Least(LatencyStarts(line))
        q == CHOOSE q \in p..Len(line) : LatencyAt(line, p, q)
        t == SubSeq(line, p, q)
    IN  <<PyInt(SubSeq(line, a, HopEnd(line))),
          PyFloat(IF Head(t) = "<" THEN Tail(t) ELSE t).v>>

RECURSIVE Readings(_)
Readings(lines) ==
    IF Len(lines) = 0 THEN <<>>
    ELSE (IF Qualifies(Head(lines)) THEN <<Reading(Head(lines))>> ELSE <<>>)
         \o Readings(Tail(lines))

\* C9: the traceroute parser raises nothing and returns, in line order, one
\* reading per qualifying line (leading hop number, first "ms"-terminated
\* value with a leading "<" dropped), and nothing for any other line.
C9_TraceReadings ==
    /\ pc # "raised"
    /\ pc = "trace_returned" => hops = Readings(TextLines(output))

C9_Witness ==
    /\ pc = "trace_returned"
    /\ Len(TextLines(output)) = 2
    /\ TextLines(output)[1] = "  5  * * *"
    /\ TextLines(output)[2] = "  2    <1 ms    <1 ms  10.0.0.9"
    /\ hops = <<<<2, Ms(1, 0)>>>>

\* C10 as claimed: every reading has a hop number of at least 1 and a latency
\* of at least 0.
C10_PositiveHop ==
    pc = "trace_returned" => \A n \in 1..Len(hops) : hops[n][1] >= 1 /\ hops[n][2] >= 0

\* C10 as amended: every reading has a hop number of at least 0 (0 for a line
\* whose leading number is 0) and a latency of at least 0.
C10_NonNegativeHop ==
    pc = "trace_returned" => \A n \in 1..Len(hops) : hops[n][1] >= 0 /\ hops[n][2] >= 0

C10_Witness ==
    /\ pc = "trace_returned"
    /\ Len(hops) = 2
    /\ hops[1][1] = 0
    /\ hops[2][1] >= 1

====
